---- MODULE Spec2Model ----
(***************************************************************************)
(* A model of sunxdcc (src/src/lib.rs): the decoder RawResult::consume,    *)
(* which turns one page of parallel string lists into SearchResult values, *)
(* and the paginating iterator SearchResults (new, refresh, next).         *)
(*                                                                         *)
(* Rust values are written as follows.                                     *)
(*   Vec<T>            a sequence; push is Append, pop takes the last      *)
(*   Option<T>         None is <<>>, Some(x) is <<x>>                      *)
(*   Result<T, E>      [tag |-> "Ok", val |-> x], [tag |-> "Err", val |-> e]*)
(*   ()                [unit |-> "()"]                                     *)
(***************************************************************************)
EXTENDS Naturals, Sequences, FiniteSets, TLC

VARIABLES
    query,            \* SearchResults::query
    current_page,     \* SearchResults::current_page
    current_results,  \* SearchResults::current_results
    trace,            \* history: one PullEntry per call of next
    rawResult,        \* decoder run: the RawResult given to consume
    results,          \* decoder run: the Vec<SearchResult> consume fills
    consumeRet        \* decoder run: Some(what consume returned), None before

vars == <<query, current_page, current_results, trace,
          rawResult, results, consumeRet>>

-----------------------------------------------------------------------------
(* Bounds of the model.                                                    *)

\* longest column of a RawResult given to the decoder run
MaxLen == 2
\* most records in one page the modelled service answers with
MaxPageLen == 2
\* calls of next made on one iterator
MaxPulls == 4

-----------------------------------------------------------------------------
(* Rust's Option and Result.                                               *)

None == <<>>
Some(x) == <<x>>
Ok(x) == [tag |-> "Ok", val |-> x]
Err(e) == [tag |-> "Err", val |-> e]
Unit == [unit |-> "()"]

IsOk(r) == r.tag = "Ok"
IsErr(r) == r.tag = "Err"

\* Result<Option<T>, E>::transpose
transpose(r) ==
    IF IsOk(r)
    THEN IF r.val = None THEN None ELSE Some(Ok(r.val[1]))
    ELSE Some(r)

\* Error::Request(reqwest::Error): cause is the call whose `?` raised it
ErrorRequest(cause) == [kind |-> "Request", cause |-> cause]
\* Error::Malformed(String)
ErrorMalformed(msg) == [kind |-> "Malformed", msg |-> msg]

BASE_URL == "https://sunxdcc.com/deliver.php"

-----------------------------------------------------------------------------
(* Sequences.                                                              *)

\* Iterator::rev on a Vec's into_iter
Reverse(s) == [i \in 1..Len(s) |-> s[Len(s) + 1 - i]]

Min2(a, b) == IF a <= b THEN a ELSE b

\* all sequences over S of length at most n
SeqsUpTo(S, n) == UNION {[1..k -> S] : k \in 0..n}

-----------------------------------------------------------------------------
(* The pages the service may answer with.  Every value of a column but     *)
(* botrec carries its own position, so that two records of one page never  *)
(* agree on a field and a misplaced value shows.                           *)

BotrecValues == {"Na", "100.0kB/s"}
Nets == {"a", "b"}
Queries == {"test"}

Column(prefix, suffix, n) == [i \in 1..n |-> prefix \o ToString(i) \o suffix]

OtherColumns == {"network", "channel", "bot", "fsize", "fname", "packnum", "gets"}

\* a RawResult: lens gives the length of each column but botrec
Page(net, lens, botrec) ==
    [network |-> Column("irc." \o net, ".net", lens["network"]),
     channel |-> Column("#c", "", lens["channel"]),
     bot     |-> Column("B", "", lens["bot"]),
     fsize   |-> Column("[", "M]", lens["fsize"]),
     fname   |-> Column("f", "", lens["fname"]),
     packnum |-> Column("#", "", lens["packnum"]),
     gets    |-> Column("", "x", lens["gets"]),
     botrec  |-> botrec]

\* the inputs of the decoder run: every combination of column lengths
RawPages ==
    {Page("a", lens, botrec) :
        lens \in [OtherColumns -> 0..MaxLen],
        botrec \in SeqsUpTo(BotrecValues, MaxLen)}

-----------------------------------------------------------------------------
(* RawResult, src/src/lib.rs 28-90.                                        *)

is_consistent_no_botrec(self) ==
    /\ Len(self.network) = Len(self.channel)
    /\ Len(self.channel) = Len(self.bot)
    /\ Len(self.channel) = Len(self.fsize)
    /\ Len(self.channel) = Len(self.fname)
    /\ Len(self.channel) = Len(self.packnum)
    /\ Len(self.channel) = Len(self.gets)

is_consistent(self) ==
    /\ Len(self.network) = Len(self.channel)
    /\ Len(self.channel) = Len(self.bot)
    /\ Len(self.channel) = Len(self.fsize)
    /\ Len(self.channel) = Len(self.fname)
    /\ Len(self.channel) = Len(self.packnum)
    /\ Len(self.channel) = Len(self.gets)
    /\ Len(self.channel) = Len(self.botrec)

\* izip! stops with the shortest of its iterators
izipLen(self) ==
    Min2(Len(self.network), Min2(Len(self.channel), Min2(Len(self.bot),
    Min2(Len(self.fsize), Min2(Len(self.fname), Min2(Len(self.packnum),
    Min2(Len(self.gets), Len(self.botrec))))))))

\* the body of the for loop: one SearchResult from one tuple of the izip
SearchResult(network, channel, bot, fsize, fname, packnum, gets, botrec) ==
    [network        |-> network,
     channel        |-> channel,
     bot            |-> bot,
     filesize       |-> fsize,
     filename       |-> fname,
     packet_number  |-> packnum,
     download_count |-> gets,
     upload_speed   |-> IF botrec = "Na" THEN None ELSE Some(botrec)]

\* the j-th tuple of the izip! over the reversed columns
izipRev(self, j) ==
    SearchResult(Reverse(self.network)[j], Reverse(self.channel)[j],
                 Reverse(self.bot)[j], Reverse(self.fsize)[j],
                 Reverse(self.fname)[j], Reverse(self.packnum)[j],
                 Reverse(self.gets)[j], Reverse(self.botrec)[j])

\* a consume whose botrec column is not reversed
consume_botrec_forward(self, buf) ==
    IF ~is_consistent(self)
    THEN [ret |-> Err(ErrorMalformed("mismatch in adjacent list sizes")),
          results |-> buf]
    ELSE [ret |-> Ok(Unit),
          results |-> buf \o [j \in 1..izipLen(self) |->
              SearchResult(Reverse(self.network)[j], Reverse(self.channel)[j],
                           Reverse(self.bot)[j], Reverse(self.fsize)[j],
                           Reverse(self.fname)[j], Reverse(self.packnum)[j],
                           Reverse(self.gets)[j], self.botrec[j])]]

\* a consume that takes a page without records for a malformed one
consume_rejects_empty(self, buf) ==
    IF ~is_consistent(self) \/ Len(self.network) = 0
    THEN [ret |-> Err(ErrorMalformed("mismatch in adjacent list sizes")),
          results |-> buf]
    ELSE [ret |-> Ok(Unit),
          results |-> buf \o [j \in 1..izipLen(self) |-> izipRev(self, j)]]

\* a consume that checks the lengths only after its loop has pushed
consume_check_after(self, buf) ==
    [ret |-> IF is_consistent(self)
             THEN Ok(Unit)
             ELSE Err(ErrorMalformed("mismatch in adjacent list sizes")),
     results |-> buf \o [j \in 1..izipLen(self) |-> izipRev(self, j)]]

\* a consume that pushes the records in the service's order (no rev)
consume_forward(self, buf) ==
    IF ~is_consistent(self)
    THEN [ret |-> Err(ErrorMalformed("mismatch in adjacent list sizes")),
          results |-> buf]
    ELSE [ret |-> Ok(Unit),
          results |-> buf \o [j \in 1..izipLen(self) |->
              SearchResult(self.network[j], self.channel[j], self.bot[j],
                           self.fsize[j], self.fname[j], self.packnum[j],
                           self.gets[j], self.botrec[j])]]

\* RawResult::consume(self, results): the value returned and results after
consume(self, buf) ==
    IF ~is_consistent(self)
    THEN [ret |-> Err(ErrorMalformed("mismatch in adjacent list sizes")),
          results |-> buf]
    ELSE [ret |-> Ok(Unit),
          results |-> buf \o [j \in 1..izipLen(self) |-> izipRev(self, j)]]

-----------------------------------------------------------------------------
(* SearchResults::new, src/src/lib.rs 147-156, and the idle decoder run.   *)

NoRaw == Page("a", [c \in OtherColumns |-> 0], <<>>)

IterInit ==
    /\ query \in Queries
    /\ current_page = 0
    /\ current_results = <<>>
    /\ trace = <<>>

DecoderIdle ==
    /\ rawResult = NoRaw
    /\ results = <<>>
    /\ consumeRet = None

-----------------------------------------------------------------------------
(* The decoder run: consume applied to one RawResult and an empty Vec, as  *)
(* refresh calls it (the Vec is cleared first).                            *)

InitDecode ==
    /\ IterInit
    /\ rawResult \in RawPages
    /\ results = <<>>
    /\ consumeRet = None

Consume ==
    /\ consumeRet = None
    /\ LET c == consume(rawResult, results)
       IN /\ results' = c.results
          /\ consumeRet' = Some(c.ret)
    /\ UNCHANGED <<query, current_page, current_results, trace, rawResult>>

NextDecode == Consume

SpecDecode == InitDecode /\ [][NextDecode]_vars

-----------------------------------------------------------------------------
(* The transport: what one blocking GET may come to.  send() fails, or the *)
(* body does not deserialize into a RawResult, or it is a RawResult.       *)

SendFails == [kind |-> "send_err"]
JsonFails == [kind |-> "json_err"]
Body(raw) == [kind |-> "body", raw |-> raw]

\* the botrec column of a served page: "Na" at odd places
Botrec(n) == [i \in 1..n |-> IF i % 2 = 1 THEN "Na" ELSE "100.0kB/s"]

Uniform(n) == [c \in OtherColumns |-> n]

\* pages whose eight columns have one length
ConsistentPages ==
    {Page(net, Uniform(n), Botrec(n)) : net \in Nets, n \in 0..MaxPageLen}

\* pages with one column (network, or botrec) one shorter than the others
InconsistentPages ==
    {Page("a", [Uniform(MaxPageLen) EXCEPT !["network"] = MaxPageLen - 1],
          Botrec(MaxPageLen)),
     Page("b", Uniform(MaxPageLen), Botrec(MaxPageLen - 1))}

ServicePages == ConsistentPages \cup InconsistentPages

Responses == {SendFails, JsonFails} \cup {Body(raw) : raw \in ServicePages}

-----------------------------------------------------------------------------
(* SearchResults, src/src/lib.rs 135-204.                                  *)

\* a Request that counts pages from one
Request_one_based(q, page) ==
    [url |-> BASE_URL,
     params |-> <<<<"sterm", q>>, <<"page", ToString(page + 1)>>>>]

\* the parameters refresh gives Url::parse_with_params: the query verbatim
\* and the page index in decimal
Request(q, page) ==
    [url |-> BASE_URL, params |-> <<<<"sterm", q>>, <<"page", ToString(page)>>>>]

\* a refresh that does not go on to the next page after a page without
\* records
refresh_stay_on_empty(q, page, buf, resp) ==
    LET cleared == <<>>
        fetches == <<[request |-> Request(q, page), response |-> resp]>>
    IN IF resp.kind = "send_err"
       THEN [ret |-> Err(ErrorRequest("send")), current_page |-> page,
             current_results |-> cleared, fetches |-> fetches]
       ELSE IF resp.kind = "json_err"
       THEN [ret |-> Err(ErrorRequest("json")), current_page |-> page,
             current_results |-> cleared, fetches |-> fetches]
       ELSE LET c == consume(resp.raw, cleared)
            IN IF IsErr(c.ret)
               THEN [ret |-> c.ret, current_page |-> page,
                     current_results |-> c.results, fetches |-> fetches]
               ELSE [ret |-> Ok(Unit),
                     current_page |-> IF c.results = <<>> THEN page
                                      ELSE page + 1,
                     current_results |-> c.results, fetches |-> fetches]

\* a refresh that adds one to current_page before it sends the request
refresh_advance_first(q, page, buf, resp) ==
    LET cleared == <<>>
        fetches == <<[request |-> Request(q, page), response |-> resp]>>
    IN IF resp.kind = "send_err"
       THEN [ret |-> Err(ErrorRequest("send")), current_page |-> page + 1,
             current_results |-> cleared, fetches |-> fetches]
       ELSE IF resp.kind = "json_err"
       THEN [ret |-> Err(ErrorRequest("json")), current_page |-> page + 1,
             current_results |-> cleared, fetches |-> fetches]
       ELSE LET c == consume(resp.raw, cleared)
            IN IF IsErr(c.ret)
               THEN [ret |-> c.ret, current_page |-> page + 1,
                     current_results |-> c.results, fetches |-> fetches]
               ELSE [ret |-> Ok(Unit), current_page |-> page + 1,
                     current_results |-> c.results, fetches |-> fetches]

\* a refresh that takes a body it cannot deserialize for a page without
\* records
refresh_json_err_as_empty(q, page, buf, resp) ==
    LET cleared == <<>>
        fetches == <<[request |-> Request(q, page), response |-> resp]>>
    IN IF resp.kind = "send_err"
       THEN [ret |-> Err(ErrorRequest("send")), current_page |-> page,
             current_results |-> cleared, fetches |-> fetches]
       ELSE IF resp.kind = "json_err"
       THEN [ret |-> Ok(Unit), current_page |-> page + 1,
             current_results |-> cleared, fetches |-> fetches]
       ELSE LET c == consume(resp.raw, cleared)
            IN IF IsErr(c.ret)
               THEN [ret |-> c.ret, current_page |-> page,
                     current_results |-> c.results, fetches |-> fetches]
               ELSE [ret |-> Ok(Unit), current_page |-> page + 1,
                     current_results |-> c.results, fetches |-> fetches]

\* a refresh that reports a body it cannot deserialize as Error::Malformed
refresh_json_err_malformed(q, page, buf, resp) ==
    LET cleared == <<>>
        fetches == <<[request |-> Request(q, page), response |-> resp]>>
    IN IF resp.kind = "send_err"
       THEN [ret |-> Err(ErrorRequest("send")), current_page |-> page,
             current_results |-> cleared, fetches |-> fetches]
       ELSE IF resp.kind = "json_err"
       THEN [ret |-> Err(ErrorMalformed("mismatch in adjacent list sizes")),
             current_page |-> page,
             current_results |-> cleared, fetches |-> fetches]
       ELSE LET c == consume(resp.raw, cleared)
            IN IF IsErr(c.ret)
               THEN [ret |-> c.ret, current_page |-> page,
                     current_results |-> c.results, fetches |-> fetches]
               ELSE [ret |-> Ok(Unit), current_page |-> page + 1,
                     current_results |-> c.results, fetches |-> fetches]

\* a refresh that takes a failed send for the end of the results
refresh_send_err_as_end(q, page, buf, resp) ==
    LET cleared == <<>>
        fetches == <<[request |-> Request(q, page), response |-> resp]>>
    IN IF resp.kind = "send_err"
       THEN [ret |-> Ok(Unit), current_page |-> page,
             current_results |-> cleared, fetches |-> fetches]
       ELSE IF resp.kind = "json_err"
       THEN [ret |-> Err(ErrorRequest("json")), current_page |-> page,
             current_results |-> cleared, fetches |-> fetches]
       ELSE LET c == consume(resp.raw, cleared)
            IN IF IsErr(c.ret)
               THEN [ret |-> c.ret, current_page |-> page,
                     current_results |-> c.results, fetches |-> fetches]
               ELSE [ret |-> Ok(Unit), current_page |-> page + 1,
                     current_results |-> c.results, fetches |-> fetches]

\* SearchResults::refresh with the transport answering resp: the value
\* returned, the fields after, and the requests made with their answers
refresh(q, page, buf, resp) ==
    LET cleared == <<>>
        fetches == <<[request |-> Request(q, page), response |-> resp]>>
    IN IF resp.kind = "send_err"
       THEN [ret |-> Err(ErrorRequest("send")), current_page |-> page,
             current_results |-> cleared, fetches |-> fetches]
       ELSE IF resp.kind = "json_err"
       THEN [ret |-> Err(ErrorRequest("json")), current_page |-> page,
             current_results |-> cleared, fetches |-> fetches]
       ELSE LET c == consume(resp.raw, cleared)
            IN IF IsErr(c.ret)
               THEN [ret |-> c.ret, current_page |-> page,
                     current_results |-> c.results, fetches |-> fetches]
               ELSE [ret |-> Ok(Unit), current_page |-> page + 1,
                     current_results |-> c.results, fetches |-> fetches]

\* a test that refreshes while one record is still pending
needs_refresh_one_left(page, buf) == page = 0 \/ Len(buf) <= 1

\* a test that refreshes only before the first page
needs_refresh_first_only(page, buf) == page = 0

\* the test next makes before it calls refresh
needs_refresh(page, buf) == page = 0 \/ buf = <<>>

\* a pop that takes the first element (Vec::remove(0))
pop_front(buf) ==
    IF buf = <<>>
    THEN [ret |-> None, vec |-> buf]
    ELSE [ret |-> Some(buf[1]), vec |-> SubSeq(buf, 2, Len(buf))]

\* Vec::pop: the value returned and the Vec after
pop(buf) ==
    IF buf = <<>>
    THEN [ret |-> None, vec |-> buf]
    ELSE [ret |-> Some(buf[Len(buf)]), vec |-> SubSeq(buf, 1, Len(buf) - 1)]

\* one entry of trace: the fetches the call made, each a request and the
\* transport's answer, and what the call returned
PullEntry(fetches, ret) == [fetches |-> fetches, ret |-> ret]

\* <SearchResults as Iterator>::next, the transport answering resp if asked
next(resp) ==
    /\ Len(trace) < MaxPulls
    /\ LET r == IF needs_refresh(current_page, current_results)
                THEN refresh(query, current_page, current_results, resp)
                ELSE [ret |-> Ok(Unit), current_page |-> current_page,
                      current_results |-> current_results, fetches |-> <<>>]
           p == pop(r.current_results)
       IN IF IsErr(r.ret)
          THEN /\ current_page' = r.current_page
               /\ current_results' = r.current_results
               /\ trace' = Append(trace,
                                  PullEntry(r.fetches, Some(Err(r.ret.val))))
          ELSE /\ current_page' = r.current_page
               /\ current_results' = p.vec
               /\ trace' = Append(trace,
                                  PullEntry(r.fetches, transpose(Ok(p.ret))))
    /\ UNCHANGED <<query, rawResult, results, consumeRet>>

Init == IterInit /\ DecoderIdle

Next == \E resp \in Responses : next(resp)

Spec == Init /\ [][Next]_vars

-----------------------------------------------------------------------------
(* What the claims speak of, stated from the inputs and from what the      *)
(* caller sees, not from the decoder's or the iterator's own definitions.  *)

AllColumns == OtherColumns \cup {"botrec"}

\* the eight columns of raw have one length
SameLengths(raw) == \A c, d \in AllColumns : Len(raw[c]) = Len(raw[d])

\* the record the service describes at position i of raw
RecordAt(raw, i) ==
    [network        |-> raw.network[i],
     channel        |-> raw.channel[i],
     bot            |-> raw.bot[i],
     filesize       |-> raw.fsize[i],
     filename       |-> raw.fname[i],
     packet_number  |-> raw.packnum[i],
     download_count |-> raw.gets[i],
     upload_speed   |-> IF raw.botrec[i] = "Na" THEN <<>> ELSE <<raw.botrec[i]>>]

\* the records of a page in the service's left-to-right order
RecordsOf(raw) == [i \in 1..Len(raw.network) |-> RecordAt(raw, i)]

\* the order in which pop hands out the records of a Vec
PopOrder(buf) == [i \in 1..Len(buf) |-> buf[Len(buf) + 1 - i]]

MalformedMessage == "mismatch in adjacent list sizes"

-----------------------------------------------------------------------------
(* Claims about the decoder, checked under SpecDecode.                     *)

\* C2: whenever the eight columns of the RawResult have one length L (L = 0
\* included), consume returns Ok and leaves exactly L records which pop
\* hands out in the service's order; the i-th is made of position i of every
\* column, each value verbatim, and its upload_speed is None exactly when
\* botrec[i] is "Na" (and Some of botrec[i] otherwise).
C2_DecodeConsistent ==
    (consumeRet # None /\ SameLengths(rawResult)) =>
        /\ consumeRet = Some(Ok(Unit))
        /\ Len(results) = Len(rawResult.network)
        /\ \A i \in 1..Len(rawResult.network) :
              LET rec == PopOrder(results)[i]
              IN /\ rec.network = rawResult.network[i]
                 /\ rec.channel = rawResult.channel[i]
                 /\ rec.bot = rawResult.bot[i]
                 /\ rec.filesize = rawResult.fsize[i]
                 /\ rec.filename = rawResult.fname[i]
                 /\ rec.packet_number = rawResult.packnum[i]
                 /\ rec.download_count = rawResult.gets[i]
                 /\ (rec.upload_speed = None <=> rawResult.botrec[i] = "Na")
                 /\ (rawResult.botrec[i] # "Na" =>
                        rec.upload_speed = Some(rawResult.botrec[i]))

\* Scenario A: two records decoded, the first without an upload speed, the
\* second with one
C2_Witness ==
    /\ consumeRet = Some(Ok(Unit))
    /\ SameLengths(rawResult)
    /\ rawResult.botrec = <<"Na", "100.0kB/s">>
    /\ Len(results) = 2
    /\ PopOrder(results)[1].upload_speed = None
    /\ PopOrder(results)[2].upload_speed = Some("100.0kB/s")

\* C3: whenever two of the eight columns differ in length, consume returns
\* Err(Malformed) and adds no record to the Vec it was given.
C3_DecodeInconsistent ==
    (consumeRet # None /\ ~SameLengths(rawResult)) =>
        /\ consumeRet = Some(Err(ErrorMalformed(MalformedMessage)))
        /\ results = <<>>

\* only botrec is shorter than the other columns, and the decode failed
C3_Witness ==
    /\ consumeRet = Some(Err(ErrorMalformed(MalformedMessage)))
    /\ \A c \in OtherColumns : Len(rawResult[c]) = 2
    /\ Len(rawResult.botrec) = 1
    /\ results = <<>>

-----------------------------------------------------------------------------
(* The history as the caller and the service see it.                       *)

RECURSIVE Concat(_)
Concat(ss) == IF ss = <<>> THEN <<>> ELSE Head(ss) \o Concat(Tail(ss))

IsPrefix(s, t) == Len(s) <= Len(t) /\ \A i \in 1..Len(s) : s[i] = t[i]

\* the transport's answer is a page that decodes
Succeeds(resp) == resp.kind = "body" /\ SameLengths(resp.raw)

\* the page index a request asks for, as sent
PageAsked(f) == f.request.params[2][2]

\* the number a decimal page parameter stands for
PageIndex(f) == CHOOSE n \in 0..(MaxPulls + 1) : ToString(n) = PageAsked(f)

\* what a call of next returned
IsEnd(ret) == ret = None
IsRecord(ret) == ret # None /\ ret[1].tag = "Ok"
IsError(ret) == ret # None /\ ret[1].tag = "Err"
IsMalformed(ret) == IsError(ret) /\ ret[1].val.kind = "Malformed"

\* a call of next made a fetch / one that decoded / one that did not
Fetched(e) == e.fetches # <<>>
FetchOk(e) == Fetched(e) /\ Succeeds(e.fetches[1].response)
FetchFailed(e) == Fetched(e) /\ ~Succeeds(e.fetches[1].response)
RawOf(e) == e.fetches[1].response.raw
FetchedEmpty(e) == FetchOk(e) /\ Len(RawOf(e).network) = 0

\* every fetch of the calls t, in the order made
FetchLogOf(t) == Concat([i \in 1..Len(t) |-> t[i].fetches])
FetchLog == FetchLogOf(trace)

\* the records the calls t returned, in the order returned
YieldedOf(t) ==
    LET got == SelectSeq(t, LAMBDA e : IsRecord(e.ret))
    IN [i \in 1..Len(got) |-> got[i].ret[1].val]
Yielded == YieldedOf(trace)

\* the pages the calls t fetched and decoded, in the order fetched
ServedPagesOf(t) ==
    LET ok == SelectSeq(FetchLogOf(t), LAMBDA f : Succeeds(f.response))
    IN [i \in 1..Len(ok) |-> ok[i].response.raw]
ServedPages == ServedPagesOf(trace)

\* the records of those pages: page after page, each in the service's order
AllServedOf(t) ==
    LET pages == ServedPagesOf(t)
    IN Concat([i \in 1..Len(pages) |-> RecordsOf(pages[i])])
AllServed == AllServedOf(trace)

-----------------------------------------------------------------------------
(* Claims about the iterator, checked under Spec.                          *)

\* C1: the records the iterator has yielded are, in the order yielded, an
\* initial part of the records of page 0 in the service's left-to-right
\* order, followed by those of page 1, and so on: within a page the order is
\* the service's, and every record of a page comes before any of the next.
C1_PaginationOrder ==
    LET yielded == Yielded
        served == AllServed
    IN IsPrefix(yielded, served)

\* three pages with records were served, the first with two, and all their
\* records have been yielded
C1_Witness ==
    /\ Len(ServedPages) = 3
    /\ \A k \in 1..3 : Len(ServedPages[k].network) > 0
    /\ Len(ServedPages[1].network) = 2
    /\ ServedPages[1] # ServedPages[2]
    /\ Yielded = AllServed

\* C4 as stated: the fetches made are of page 0, 1, 2, ... in this order,
\* each page index fetched exactly once.
C4_Original ==
    \A i \in 1..Len(FetchLog) : PageAsked(FetchLog[i]) = ToString(i - 1)

\* C4 amended: every fetch asks for the page whose index is the number of
\* fetches that succeeded before it.  So the first asks for page 0, the
\* indices never decrease, each index is fetched successfully exactly once
\* and none is skipped, and an index is asked for again only after a fetch
\* of it failed.
C4_FetchOrder ==
    LET log == FetchLog
    IN \A i \in 1..Len(log) :
           PageAsked(log[i]) =
               ToString(Cardinality({j \in 1..(i - 1) :
                                        Succeeds(log[j].response)}))

\* a failed fetch of page 0, its retry, then the fetch of page 1
C4_Witness ==
    /\ Len(FetchLog) >= 3
    /\ ~Succeeds(FetchLog[1].response)
    /\ Succeeds(FetchLog[2].response)
    /\ PageAsked(FetchLog[2]) = "0"
    /\ PageAsked(FetchLog[3]) = "1"

\* C5: no record is dropped or repeated: in every state the records yielded
\* followed by those still in the buffer, in pop order, are exactly the
\* records of the pages decoded so far; and a call of next fetches (refresh
\* clears the buffer) only when the buffer is empty.
C5_NoDrop ==
    /\ [](Yielded \o PopOrder(current_results) = AllServed)
    /\ [][(trace' # trace /\ Fetched(trace'[Len(trace')]))
              => current_results = <<>>]_vars

\* a page of two records was yielded whole, and a later page was fetched and
\* yielded too
C5_Witness ==
    /\ Len(ServedPages) >= 2
    /\ Len(ServedPages[1].network) = 2
    /\ Len(Yielded) >= 3
    /\ current_results = <<>>
    /\ Yielded = AllServed

\* C6: when a call of next fetches a page that decodes to no record, that
\* call returns the end of the sequence (None), and the records yielded up
\* to it are exactly the records of the pages decoded before it.
C6_EmptyPageEnds ==
    \A i \in 1..Len(trace) :
        FetchedEmpty(trace[i]) =>
            /\ IsEnd(trace[i].ret)
            /\ YieldedOf(SubSeq(trace, 1, i)) =
                   AllServedOf(SubSeq(trace, 1, i - 1))

\* Scenario C: page 0 gave two records, both were yielded, and the third
\* call fetched page 1, found it empty and returned None
C6_Witness ==
    /\ Len(trace) = 3
    /\ FetchOk(trace[1]) /\ Len(RawOf(trace[1]).network) = 2
    /\ FetchedEmpty(trace[3])
    /\ PageAsked(trace[3].fetches[1]) = "1"
    /\ IsEnd(trace[3].ret)
    /\ Len(Yielded) = 2

\* the fetches never go back to a decoded page and never skip a page index
NoRedecodeNoSkip ==
    LET log == FetchLog
        index == [j \in 1..Len(log) |-> PageIndex(log[j])]
    IN /\ log # <<>> => index[1] = 0
       /\ \A j \in 1..(Len(log) - 1) :
             /\ index[j + 1] >= index[j]
             /\ index[j + 1] <= index[j] + 1
       /\ \A i, j \in 1..Len(log) :
             (i < j /\ Succeeds(log[i].response)) => index[j] > index[i]

\* C7 as stated: the call of next that follows one which fetched an empty
\* page k fetches page k again; no decoded page is fetched again and no page
\* index is skipped.
C7_Original ==
    /\ \A i \in 1..(Len(trace) - 1) :
          FetchedEmpty(trace[i]) =>
              /\ Fetched(trace[i + 1])
              /\ PageIndex(trace[i + 1].fetches[1]) =
                     PageIndex(trace[i].fetches[1])
    /\ NoRedecodeNoSkip

\* C7 amended: the call of next that follows one which fetched an empty
\* page k fetches page k + 1; no decoded page is fetched again and no page
\* index is skipped.
C7_AfterEmptyPage ==
    /\ \A i \in 1..(Len(trace) - 1) :
          FetchedEmpty(trace[i]) =>
              /\ Fetched(trace[i + 1])
              /\ PageIndex(trace[i + 1].fetches[1]) =
                     PageIndex(trace[i].fetches[1]) + 1
    /\ NoRedecodeNoSkip

\* page 1 was fetched and found empty, and the next call fetched page 2
C7_Witness ==
    \E i \in 1..(Len(trace) - 1) :
        /\ FetchedEmpty(trace[i])
        /\ PageAsked(trace[i].fetches[1]) = "1"
        /\ Fetched(trace[i + 1])
        /\ PageAsked(trace[i + 1].fetches[1]) = "2"

\* C8: when the fetch or the decode of page k fails, current_page is still
\* k after the call, the next call fetches page k again, and if that fetch
\* gives a page with records the call yields the first of them.
C8_RetrySamePage ==
    \A i \in 1..Len(trace) :
        FetchFailed(trace[i]) =>
            /\ i = Len(trace) =>
                   ToString(current_page) = PageAsked(trace[i].fetches[1])
            /\ i < Len(trace) =>
                   /\ Fetched(trace[i + 1])
                   /\ PageAsked(trace[i + 1].fetches[1]) =
                          PageAsked(trace[i].fetches[1])
                   /\ (FetchOk(trace[i + 1])
                         /\ Len(RawOf(trace[i + 1]).network) > 0) =>
                          trace[i + 1].ret =
                              Some(Ok(RecordAt(RawOf(trace[i + 1]), 1)))

\* the fetch of page 1 failed and the next call, fetching page 1 again, got
\* two records and yielded the first
C8_Witness ==
    \E i \in 1..(Len(trace) - 1) :
        /\ FetchFailed(trace[i])
        /\ PageAsked(trace[i].fetches[1]) = "1"
        /\ FetchOk(trace[i + 1])
        /\ Len(RawOf(trace[i + 1]).network) = 2
        /\ trace[i + 1].ret = Some(Ok(RecordAt(RawOf(trace[i + 1]), 1)))

\* C9: a call of next makes at most one fetch; if that fetch or its decode
\* fails the call returns an error item; and a call returns an error item
\* only if it made a fetch itself and that fetch or its decode failed.  So
\* there are as many error items as failed fetches.
C9_ErrorsSurfaceOnce ==
    /\ \A i \in 1..Len(trace) :
          /\ Len(trace[i].fetches) <= 1
          /\ FetchFailed(trace[i]) => IsError(trace[i].ret)
          /\ IsError(trace[i].ret) => FetchFailed(trace[i])
    /\ Len(SelectSeq(trace, LAMBDA e : IsError(e.ret))) =
           Len(SelectSeq(FetchLog, LAMBDA f : ~Succeeds(f.response)))

\* a failed send, an undeserializable body and a malformed page each gave
\* one error item, and a call whose fetch succeeded yielded a record
C9_Witness ==
    /\ \E i \in 1..Len(trace) :
          Fetched(trace[i]) /\ trace[i].fetches[1].response = SendFails
                            /\ IsError(trace[i].ret)
    /\ \E i \in 1..Len(trace) :
          Fetched(trace[i]) /\ trace[i].fetches[1].response = JsonFails
                            /\ IsError(trace[i].ret)
    /\ \E i \in 1..Len(trace) : IsMalformed(trace[i].ret)
    /\ \E i \in 1..Len(trace) : FetchOk(trace[i]) /\ IsRecord(trace[i].ret)

\* C10: a call of next returns Malformed exactly when the page it fetched
\* has columns of different lengths; the buffer is empty after such a call,
\* so the next call takes nothing from it: it fetches again, and a record it
\* yields is the first record of the page it fetched itself, which decodes.
\* Every record ever yielded is a record of a served page whose columns have
\* one length.
C10_MalformedDiscarded ==
    /\ LET yielded == Yielded
           served == ServedPages
       IN \A j \in 1..Len(yielded) :
              \E k \in 1..Len(served) :
                  /\ SameLengths(served[k])
                  /\ \E n \in 1..Len(served[k].network) :
                        yielded[j] = RecordAt(served[k], n)
    /\ \A i \in 1..Len(trace) :
        /\ IsMalformed(trace[i].ret) <=>
               (Fetched(trace[i])
                   /\ trace[i].fetches[1].response.kind = "body"
                   /\ ~SameLengths(RawOf(trace[i])))
        /\ IsMalformed(trace[i].ret) =>
               /\ i = Len(trace) => current_results = <<>>
               /\ i < Len(trace) =>
                      /\ Fetched(trace[i + 1])
                      /\ IsRecord(trace[i + 1].ret) =>
                             /\ FetchOk(trace[i + 1])
                             /\ trace[i + 1].ret[1].val =
                                    RecordAt(RawOf(trace[i + 1]), 1)

\* a page with a short column was refused, and the next call yielded the
\* first record of the page it fetched
C10_Witness ==
    \E i \in 1..(Len(trace) - 1) :
        /\ IsMalformed(trace[i].ret)
        /\ Len(RawOf(trace[i]).network) # Len(RawOf(trace[i]).channel)
        /\ IsRecord(trace[i + 1].ret)
        /\ current_results # <<>>

\* the kind of the error a call of next returned
IsRequestError(ret) == IsError(ret) /\ ret[1].val.kind = "Request"

\* C11 as stated: a call whose send fails returns the request (transport)
\* error; a call that fetches a page with columns of different lengths, or
\* a body that does not deserialize into the eight lists, returns Malformed.
C11_Original ==
    \A i \in 1..Len(trace) :
        Fetched(trace[i]) =>
            LET resp == trace[i].fetches[1].response
            IN /\ resp = SendFails => IsRequestError(trace[i].ret)
               /\ resp = JsonFails => IsMalformed(trace[i].ret)
               /\ (resp.kind = "body" /\ ~SameLengths(resp.raw)) =>
                      IsMalformed(trace[i].ret)

\* C11 amended: a call whose send fails, and a call whose body does not
\* deserialize into the eight lists, both return Error::Request (either is
\* a reqwest::Error); only a page with columns of different lengths returns
\* Error::Malformed, with the message naming the mismatch; and an error
\* item is of one of these two kinds.
C11_ErrorKinds ==
    \A i \in 1..Len(trace) :
        /\ Fetched(trace[i]) =>
              LET resp == trace[i].fetches[1].response
              IN /\ resp = SendFails => IsRequestError(trace[i].ret)
                 /\ resp = JsonFails => IsRequestError(trace[i].ret)
                 /\ (resp.kind = "body" /\ ~SameLengths(resp.raw)) =>
                        trace[i].ret = Some(Err(ErrorMalformed(MalformedMessage)))
        /\ IsError(trace[i].ret) =>
              (IsRequestError(trace[i].ret) \/ IsMalformed(trace[i].ret))
        /\ IsMalformed(trace[i].ret) =>
              trace[i].fetches[1].response.kind = "body"

\* an undeserializable body gave a request error and a page with a short
\* column gave Malformed
C11_Witness ==
    /\ \E i \in 1..Len(trace) :
          /\ Fetched(trace[i])
          /\ trace[i].fetches[1].response = JsonFails
          /\ IsRequestError(trace[i].ret)
    /\ \E i \in 1..Len(trace) :
          /\ Fetched(trace[i])
          /\ trace[i].fetches[1].response.kind = "body"
          /\ IsMalformed(trace[i].ret)

\* C13: the end of the sequence is not final.  When a call of next returns
\* None because the page k it fetched has no records, current_page is
\* k + 1 after it; the next call fetches page k + 1, and if that page has
\* records it yields the first of them.
C13_EndNotFinal ==
    \A i \in 1..Len(trace) :
        (FetchedEmpty(trace[i]) /\ IsEnd(trace[i].ret)) =>
            LET k == PageIndex(trace[i].fetches[1])
            IN /\ i = Len(trace) => current_page = k + 1
               /\ i < Len(trace) =>
                      /\ Fetched(trace[i + 1])
                      /\ PageAsked(trace[i + 1].fetches[1]) = ToString(k + 1)
                      /\ (FetchOk(trace[i + 1])
                            /\ Len(RawOf(trace[i + 1]).network) > 0) =>
                             trace[i + 1].ret =
                                 Some(Ok(RecordAt(RawOf(trace[i + 1]), 1)))

\* page 1 was empty and the call returned None; the next call fetched
\* page 2 and yielded its first record
C13_Witness ==
    \E i \in 1..(Len(trace) - 1) :
        /\ FetchedEmpty(trace[i])
        /\ IsEnd(trace[i].ret)
        /\ PageAsked(trace[i].fetches[1]) = "1"
        /\ PageAsked(trace[i + 1].fetches[1]) = "2"
        /\ IsRecord(trace[i + 1].ret)
        /\ current_page = 3

\* C14: a call of next made while the buffer is not empty makes no fetch,
\* returns the next pending record in the service's order (the one the
\* buffer holds last), takes exactly that record out of the buffer, and
\* leaves current_page and query as they were.
C14_BufferedPull ==
    [][(current_results # <<>> /\ trace' # trace) =>
          /\ trace' = Append(trace, trace'[Len(trace')])
          /\ ~Fetched(trace'[Len(trace')])
          /\ trace'[Len(trace')].ret = Some(Ok(PopOrder(current_results)[1]))
          /\ Len(Yielded) < Len(AllServed)
          /\ trace'[Len(trace')].ret = Some(Ok(AllServed[Len(Yielded) + 1]))
          /\ PopOrder(current_results) =
                 <<PopOrder(current_results)[1]>> \o PopOrder(current_results')
          /\ current_page' = current_page
          /\ query' = query]_vars

\* the last call found a record in the buffer: it made no fetch and yielded
\* the second record of the page
C14_Witness ==
    /\ Len(trace) >= 2
    /\ ~Fetched(trace[Len(trace)])
    /\ IsRecord(trace[Len(trace)].ret)
    /\ FetchOk(trace[Len(trace) - 1])
    /\ trace[Len(trace)].ret =
           Some(Ok(RecordAt(RawOf(trace[Len(trace) - 1]), 2)))

\* C15: in every state current_page is the number of pages decoded so far;
\* while it is 0 the buffer is empty; otherwise the buffer holds, last
\* record first (so that pop hands them out in the service's order), exactly
\* the records of the page decoded last, page current_page - 1, that have
\* not been yielded yet.
C15_BufferIsTail ==
    LET served == ServedPages
        yielded == Yielded
        all == AllServed
    IN /\ current_page = Len(served)
       /\ current_page = 0 => current_results = <<>>
       /\ current_page > 0 =>
             LET recs == RecordsOf(served[current_page])
                 before == Len(all) - Len(recs)
                 n == Len(yielded) - before
             IN /\ Len(yielded) >= before
                /\ n <= Len(recs)
                /\ PopOrder(current_results) = SubSeq(recs, n + 1, Len(recs))
                /\ \A j \in 1..Len(current_results) :
                      current_results[j] = recs[Len(recs) + 1 - j]

\* two pages were decoded; of the second, which has two records, one has
\* been yielded and the other is in the buffer
C15_Witness ==
    /\ current_page = 2
    /\ Len(ServedPages) = 2
    /\ Len(ServedPages[2].network) = 2
    /\ current_results = <<RecordAt(ServedPages[2], 2)>>

\* C16: a call of next returns None only if it made one fetch itself and
\* that fetch gave a page that decodes to no record; a call whose fetch or
\* decode failed does not return None; and a call that fetched an empty
\* page made no second fetch.
C16_EndOnlyOnEmptyPage ==
    \A i \in 1..Len(trace) :
        /\ IsEnd(trace[i].ret) =>
              (FetchedEmpty(trace[i]) /\ Len(trace[i].fetches) = 1)
        /\ FetchFailed(trace[i]) => ~IsEnd(trace[i].ret)
        /\ FetchedEmpty(trace[i]) => Len(trace[i].fetches) = 1

\* a call returned None after fetching an empty page, and another call's
\* failed fetch gave an error item instead
C16_Witness ==
    /\ \E i \in 1..Len(trace) :
          IsEnd(trace[i].ret) /\ FetchedEmpty(trace[i])
    /\ \E i \in 1..Len(trace) :
          FetchFailed(trace[i]) /\ IsError(trace[i].ret)

\* every fetch made by the calls i..j of trace failed
AllFetchesFail(i, j) ==
    \A m \in i..j : Fetched(trace[m]) => FetchFailed(trace[m])

\* C17: the iterator does not stop after an error.  Over any stretch of
\* calls in which every fetch fails, None is never returned (a caller that
\* drains until None has not finished) and every fetch asks for the same
\* page, so the page index does not change; and when the stretch starts
\* with a call whose fetch fails, every call of the stretch makes a fetch
\* and returns an error item, and current_page is still that page after it.
C17_NoStopAfterError ==
    \A i \in 1..Len(trace) : \A j \in i..Len(trace) :
        AllFetchesFail(i, j) =>
            /\ \A m \in i..j : ~IsEnd(trace[m].ret)
            /\ \A m, n \in i..j :
                  (Fetched(trace[m]) /\ Fetched(trace[n])) =>
                      PageAsked(trace[m].fetches[1]) =
                          PageAsked(trace[n].fetches[1])
            /\ FetchFailed(trace[i]) =>
                  /\ \A m \in i..j :
                        /\ Fetched(trace[m])
                        /\ IsError(trace[m].ret)
                  /\ j = Len(trace) =>
                        ToString(current_page) =
                            PageAsked(trace[i].fetches[1])

\* after page 0 was decoded, three calls in a row failed to fetch page 1:
\* each returned an error item and current_page is still 1
C17_Witness ==
    /\ Len(trace) = 4
    /\ FetchOk(trace[1])
    /\ \A m \in 2..4 : FetchFailed(trace[m]) /\ IsError(trace[m].ret)
    /\ \A m \in 2..4 : PageAsked(trace[m].fetches[1]) = "1"
    /\ current_page = 1

====
